---- MODULE Spec2Model ----
(***************************************************************************)
(* Fleet agent (src/fleet_agent.py): one pass reads the roster, classifies *)
(* every row (think_actions), filters the candidate actions through the    *)
(* SQLite memory and sends/records the rest (act); loop repeats the pass.  *)
(*                                                                         *)
(* Text is modelled as a sequence of string tokens, so that an f-string is *)
(* the concatenation of its pieces.  Time is an integer number of ticks,   *)
(* TicksPerDay ticks to the calendar day.  Mileages are whole miles.       *)
(***************************************************************************)
EXTENDS Integers, Sequences, FiniteSets, TLC

\* ------------------------------------------------------------------ bounds
TicksPerDay == 2
MaxTime == 5
MaxStarts == 2
MaxPasses == 2
YearDays == 2
MaxCols == 2

\* ------------------------------------------------------------ cell values
\* A cell of the sheet: NaN/None, text that is neither a number nor a date,
\* a number, an infinite float (s its sign), a native date/time (ticks since
\* the model's day 0), or text.
Null == [k |-> "null"]
Bad == [k |-> "bad"]
Num(n) == [k |-> "num", n |-> n]
Inf(s) == [k |-> "inf", s |-> s]
Date(t) == [k |-> "date", t |-> t]
Text(s) == [k |-> "text", s |-> s]

\* pd.notna(v)
notna(v) == v.k # "null"

\* float(v) succeeds (otherwise it raises ValueError/TypeError)
IsFloat(v) == v.k \in {"num", "inf"}

\* Float arithmetic on the values float() returns: a number, an infinity, or NaN
NaN == [k |-> "nan"]

FNeg(x) ==
    CASE x.k = "num" -> Num(-x.n)
      [] x.k = "inf" -> Inf(-x.s)
      [] OTHER -> NaN

FAdd(x, y) ==
    CASE x.k = "num" /\ y.k = "num" -> Num(x.n + y.n)
      [] x.k = "inf" /\ y.k = "num" -> x
      [] x.k = "num" /\ y.k = "inf" -> y
      [] x.k = "inf" /\ y.k = "inf" /\ x.s = y.s -> x
      [] OTHER -> NaN

FSub(x, y) == FAdd(x, FNeg(y))

Abs(n) == IF n < 0 THEN -n ELSE n

Min(S) == CHOOSE x \in S : \A y \in S : x <= y

\* str(v) of a cell
Str(v) ==
    CASE v.k = "text" -> <<v.s>>
      [] v.k = "num" -> <<ToString(v.n)>>
      [] v.k = "inf" -> <<IF v.s < 0 THEN "-inf" ELSE "inf">>
      [] v.k = "date" -> <<"T", ToString(v.t)>>
      [] v.k = "bad" -> <<"?">>
      [] OTHER -> <<"nan">>

\* ---------------------------------------------------------------- headers
\* A header as written in the sheet: its lower-case, trimmed text and how it
\* is written ("plain", "upper": other letter case, "padded": surrounding blanks).
Header(name, style) == [name |-> name, style |-> style]

\* str(c).strip().lower()
StripLower(h) == Header(h.name, "plain")

\* An alias literal of the source
Alias(name) == Header(name, "plain")

\* pick's None
None == Header("", "none")

\* A resolver that walks the columns and takes the first one that is a candidate
pick_by_column(cols, cands) ==
    LET hits == {j \in 1..Len(cols) : \E i \in 1..Len(cands) : cols[j] = cands[i]}
    IN  IF hits = {} THEN None ELSE cols[Min(hits)]

\* pick(cols, *cands): the first candidate that is one of the columns
pick(cols, cands) ==
    LET hits == {i \in 1..Len(cands) : \E j \in 1..Len(cols) : cols[j] = cands[i]}
    IN  IF hits = {} THEN None ELSE cands[Min(hits)]

\* A sheet as parsed by pandas: raw headers and rows of cells, one per header.
\* read_sheet renames the columns; a row then maps a column name to its cell.
read_sheet(sheet) ==
    [columns |-> [j \in 1..Len(sheet.columns) |-> StripLower(sheet.columns[j])],
     rows |-> sheet.rows]

\* row.get(col): the cell under column col, None (here Null) when there is none
RowGet(df, row, col) ==
    LET js == {j \in 1..Len(df.columns) : df.columns[j] = col}
    IN  IF js = {} THEN Null ELSE row[Min(js)]

\* The alias lists of think_actions
VehAliases == <<Alias("reg"), Alias("registration"), Alias("vehicle"), Alias("vrm")>>
MileageAliases == <<Alias("current mileage"), Alias("mileage"), Alias("odometer")>>
LastServiceAliases ==
    <<Alias("last service mileage"), Alias("service last mileage"), Alias("last_service_mileage")>>
IntervalAliases == <<Alias("service interval (miles)"), Alias("service interval")>>
DueAtAliases == <<Alias("service mileage due at"), Alias("service_due_at"), Alias("service due at")>>
MilesToServiceAliases == <<Alias("miles_to_service"), Alias("miles to service")>>
LastMotAliases == <<Alias("last mot date"), Alias("last mot"), Alias("last_mot_date")>>
MotExpiryAliases ==
    <<Alias("mot expiry"), Alias("mot date required"), Alias("mot due"), Alias("mot_due_date")>>
EmailAliases == <<Alias("email"), Alias("manager email"), Alias("contact email"), Alias("recipient")>>

\* os.getenv("EMAIL_DEFAULT_TO", "fleet.manager@example.com")
DefaultTo == <<"fleet.manager@example.com">>

\* ---------------------------------------------------------- classification
\* The three branches on mleft that every service rule ends in; tail is the
\* rule's own suffix of the reason ("." / " miles of service." / " (due at ...").
NoService(reason) == [due |-> FALSE, status |-> <<>>, reason |-> reason]

\* Thresholds that leave out a reading equal to the threshold
ServiceStatusStrict(mleft, due_miles, overdueTail, withinTail) ==
    IF mleft < 0
    THEN [due |-> TRUE, status |-> <<"Due">>,
          reason |-> <<"Overdue by ", ToString(Abs(mleft))>> \o overdueTail]
    ELSE IF mleft < due_miles
    THEN [due |-> TRUE, status |-> <<"Due soon">>,
          reason |-> <<"Within ", ToString(mleft)>> \o withinTail]
    ELSE NoService(<<ToString(mleft), " miles remaining">>)

ServiceStatus(mleft, due_miles, overdueTail, withinTail) ==
    IF mleft <= 0
    THEN [due |-> TRUE, status |-> <<"Due">>,
          reason |-> <<"Overdue by ", ToString(Abs(mleft))>> \o overdueTail]
    ELSE IF mleft <= due_miles
    THEN [due |-> TRUE, status |-> <<"Due soon">>,
          reason |-> <<"Within ", ToString(mleft)>> \o withinTail]
    ELSE NoService(<<ToString(mleft), " miles remaining">>)

Invalid == NoService(<<"Insufficient/invalid service data.">>)

\* mleft is not a finite number: int(mleft) raises inside the f-string.  In the
\* "mleft <= 0" branch due_service and status_s are already assigned by then,
\* and the except clause replaces the reason only.
Unworded(mleft) ==
    IF mleft.k = "inf" /\ mleft.s < 0
    THEN [due |-> TRUE, status |-> <<"Due">>, reason |-> Invalid.reason]
    ELSE Invalid

\* The columns think_actions resolves for the service logic
mileage_col(df) == pick(df.columns, MileageAliases)
last_service_mileage_col(df) == pick(df.columns, LastServiceAliases)
service_interval_col(df) == pick(df.columns, IntervalAliases)
service_due_at_col(df) == pick(df.columns, DueAtAliases)
miles_to_service_col(df) == pick(df.columns, MilesToServiceAliases)

\* "col and pd.notna(row.get(col))"
Has(df, row, c) == c # None /\ notna(RowGet(df, row, c))

\* The conditions of the if / elif / elif
UseMilesToService(df, row) == Has(df, row, miles_to_service_col(df))
UseDueAt(df, row) == Has(df, row, service_due_at_col(df)) /\ Has(df, row, mileage_col(df))
UseInterval(df, row) ==
    /\ Has(df, row, mileage_col(df))
    /\ Has(df, row, last_service_mileage_col(df))
    /\ Has(df, row, service_interval_col(df))

\* The bodies of the three branches; a float() that raises ends in the except clause
ByMilesToService(df, row, due_miles) ==
    LET mts == RowGet(df, row, miles_to_service_col(df))
    IN  IF ~IsFloat(mts) THEN Invalid
        ELSE IF mts.k = "num"
        THEN ServiceStatus(mts.n, due_miles, <<" miles.">>, <<" miles of service.">>)
        ELSE Unworded(mts)

ByDueAt(df, row, due_miles) ==
    LET cur == RowGet(df, row, mileage_col(df))
        dueAt == RowGet(df, row, service_due_at_col(df))
        mleft == FSub(dueAt, cur)
        tail == <<" miles (due at ", ToString(dueAt.n), ", current ", ToString(cur.n), ").">>
    IN  IF ~(IsFloat(cur) /\ IsFloat(dueAt)) THEN Invalid
        ELSE IF mleft.k = "num"
        THEN ServiceStatus(mleft.n, due_miles, tail, tail)
        ELSE Unworded(mleft)

ByInterval(df, row, due_miles) ==
    LET cur == RowGet(df, row, mileage_col(df))
        last == RowGet(df, row, last_service_mileage_col(df))
        int == RowGet(df, row, service_interval_col(df))
        mleft == FSub(FAdd(last, int), cur)
        tail == <<" miles (interval ", ToString(int.n), ", last at ", ToString(last.n), ").">>
    IN  IF ~(IsFloat(cur) /\ IsFloat(last) /\ IsFloat(int)) THEN Invalid
        ELSE IF mleft.k = "num"
        THEN ServiceStatus(mleft.n, due_miles, tail, tail)
        ELSE Unworded(mleft)

\* A chain that tries the due-at rule before the miles-to-service field
ServiceDecisionDueAtFirst(df, row, due_miles) ==
    IF UseDueAt(df, row) THEN ByDueAt(df, row, due_miles)
    ELSE IF UseMilesToService(df, row) THEN ByMilesToService(df, row, due_miles)
    ELSE IF UseInterval(df, row) THEN ByInterval(df, row, due_miles)
    ELSE NoService(<<"Missing service data.">>)

\* Service logic of one row: the if/elif chain inside the try block
ServiceDecision(df, row, due_miles) ==
    IF UseMilesToService(df, row) THEN ByMilesToService(df, row, due_miles)
    ELSE IF UseDueAt(df, row) THEN ByDueAt(df, row, due_miles)
    ELSE IF UseInterval(df, row) THEN ByInterval(df, row, due_miles)
    ELSE NoService(<<"Missing service data.">>)

\* parse_date_safe(val): a point in time, or NoDate (None)
NoDate == [ok |-> FALSE, t |-> 0]

\* "val > 20000": a number above this is taken for an Excel serial day
ExcelSerialMin == 20000

\* The Excel serial day of 1970-01-01, where pd.to_datetime puts a small number
\* (it reads it as nanoseconds since then)
UnixEpochSerial == 25569

\* The Excel serial day of the model's day 0
Day0Serial == 46000

\* datetime(1899, 12, 30) + timedelta(days=n), in ticks since day 0
SerialDate(n) == (n - Day0Serial) * TicksPerDay

parse_date_safe(v) ==
    CASE v.k = "date" -> [ok |-> TRUE, t |-> v.t]
      [] v.k = "num" ->
            IF v.n > ExcelSerialMin
            THEN [ok |-> TRUE, t |-> SerialDate(v.n)]
            ELSE [ok |-> TRUE, t |-> SerialDate(UnixEpochSerial)]
      [] OTHER -> NoDate

\* last_mot + relativedelta(years=1); the model's year is YearDays days long
YearTicks == YearDays * TicksPerDay

\* MOT logic of one row: the expiry, or NoDate
MotExpiry(df, row) ==
    LET cols == df.columns
        last_mot_date_col == pick(cols, LastMotAliases)
        mot_expiry_col == pick(cols, MotExpiryAliases)
    IN  IF mot_expiry_col # None /\ notna(RowGet(df, row, mot_expiry_col))
        THEN parse_date_safe(RowGet(df, row, mot_expiry_col))
        ELSE IF last_mot_date_col # None /\ notna(RowGet(df, row, last_mot_date_col))
        THEN LET last_mot == parse_date_safe(RowGet(df, row, last_mot_date_col))
             IN  IF last_mot.ok THEN [ok |-> TRUE, t |-> last_mot.t + YearTicks] ELSE NoDate
        ELSE NoDate

\* Whole days counted towards zero, as int(seconds / 86400) would
DaysLeftTruncated(expiry, now) ==
    IF expiry >= now
    THEN (expiry - now) \div TicksPerDay
    ELSE -((now - expiry) \div TicksPerDay)

\* (expiry - now).days: timedelta.days is the floor of the difference in days
DaysLeft(expiry, now) == (expiry - now) \div TicksPerDay

\* expiry.date() and expiry.strftime('%d %b %Y'): the calendar day of expiry
DateOf(t) == <<"D", ToString(t \div TicksPerDay)>>

\* An action dict; "MOT Expiry" is <<>> for None
Action(vehicle, action, status, reason, recipient, mot_expiry) ==
    [Vehicle |-> vehicle, Action |-> action, Status |-> status, Reason |-> reason,
     Recipient |-> recipient, MotExpiry |-> mot_expiry]

\* The actions of row number i (0-based, as df.iterrows numbers it)
RowActions(df, i, row, now, due_miles, due_days) ==
    LET cols == df.columns
        veh_col == pick(cols, VehAliases)
        email_col == pick(cols, EmailAliases)
        vehicle == IF veh_col = None THEN <<"Vehicle ", ToString(i + 1)>>
                   ELSE Str(RowGet(df, row, veh_col))
        recipient == IF email_col # None /\ notna(RowGet(df, row, email_col))
                     THEN Str(RowGet(df, row, email_col))
                     ELSE DefaultTo
        svc == ServiceDecision(df, row, due_miles)
        service == IF svc.due
                   THEN <<Action(vehicle, <<"Service">>, svc.status, svc.reason, recipient, <<>>)>>
                   ELSE <<>>
        expiry == MotExpiry(df, row)
        days_left == DaysLeft(expiry.t, now)
        mot == IF ~expiry.ok THEN <<>>
               ELSE IF days_left < 0
               THEN <<Action(vehicle, <<"MOT">>, <<"Overdue">>,
                             <<"Expired ", ToString(-days_left), " days ago on ">>
                                 \o DateOf(expiry.t) \o <<".">>,
                             recipient, DateOf(expiry.t))>>
               ELSE IF days_left <= due_days
               THEN <<Action(vehicle, <<"MOT">>, <<"Due soon">>,
                             <<"Expires in ", ToString(days_left), " days on ">>
                                 \o DateOf(expiry.t) \o <<".">>,
                             recipient, DateOf(expiry.t))>>
               ELSE <<>>
    IN  service \o mot

RECURSIVE ThinkFrom(_, _, _, _, _)
ThinkFrom(df, i, now, due_miles, due_days) ==
    IF i >= Len(df.rows) THEN <<>>
    ELSE RowActions(df, i, df.rows[i + 1], now, due_miles, due_days)
             \o ThinkFrom(df, i + 1, now, due_miles, due_days)

\* think_actions(df, now)
think_actions(df, now, due_miles, due_days) == ThinkFrom(df, 0, now, due_miles, due_days)

\* hash_action: SHA-256 of the six fields joined by "|"; the digest is taken
\* to be collision-free, so the fingerprint is the joined text itself
hash_action(vehicle, action, status, reason, mot_expiry, recipient) ==
    vehicle \o <<"|">> \o action \o <<"|">> \o status \o <<"|">> \o reason
        \o <<"|">> \o mot_expiry \o <<"|">> \o recipient

\* The key act computes for an action
KeyOf(a) == hash_action(a.Vehicle, a.Action, a.Status, a.Reason, a.MotExpiry, a.Recipient)

\* ------------------------------------------- the dashboard (src/app.py)
Max(S) == CHOOSE x \in S : \A y \in S : y <= x

\* app.py's pick(cols, *aliases): headers and aliases are compared trimmed and
\* in lower case (of two headers with the same text the dict keeps the later
\* one), and the header as written is returned
app_pick(cols, aliases) ==
    LET norm(k) == {j \in 1..Len(cols) : StripLower(cols[j]) = k}
        hits == {i \in 1..Len(aliases) : norm(StripLower(aliases[i])) # {}}
    IN  IF hits = {} THEN None ELSE cols[Max(norm(StripLower(aliases[Min(hits)])))]

\* The alias lists of app.py's think_actions that differ from the agent's
AppMileageAliases ==
    <<Alias("current mileage"), Alias("mileage"), Alias("odometer"), Alias("current_mileage")>>
AppLastServiceAliases ==
    <<Alias("service last mileage"), Alias("last service mileage"), Alias("last_service_mileage")>>
AppIntervalAliases ==
    <<Alias("service interval (miles)"), Alias("service interval"), Alias("service_interval_miles")>>
AppDueAtAliases == <<Alias("service mileage due at"), Alias("service due at"), Alias("service_due_at")>>
AppMotExpiryAliases ==
    <<Alias("mot date required"), Alias("mot expiry"), Alias("mot due"), Alias("mot_due_date")>>

\* _secret("EMAIL_DEFAULT_TO", ""): the empty text
AppDefaultTo == <<>>

\* mleft of app.py: a float, no value (None), or an exception raised by float()
AppMissing == [k |-> "missing"]
AppRaised == [k |-> "raised"]

AppMleft(df, row) ==
    LET cols == df.columns
        mile_col == app_pick(cols, AppMileageAliases)
        last_svc_col == app_pick(cols, AppLastServiceAliases)
        interval_col == app_pick(cols, AppIntervalAliases)
        due_at_col == app_pick(cols, AppDueAtAliases)
        mleft_col == app_pick(cols, MilesToServiceAliases)
        cell(c) == RowGet(df, row, c)
    IN  IF Has(df, row, mleft_col)
        THEN IF IsFloat(cell(mleft_col)) THEN cell(mleft_col) ELSE AppRaised
        ELSE IF Has(df, row, due_at_col) /\ Has(df, row, mile_col)
        THEN IF IsFloat(cell(due_at_col)) /\ IsFloat(cell(mile_col))
             THEN FSub(cell(due_at_col), cell(mile_col))
             ELSE AppRaised
        ELSE IF Has(df, row, mile_col) /\ Has(df, row, last_svc_col) /\ Has(df, row, interval_col)
        THEN IF IsFloat(cell(last_svc_col)) /\ IsFloat(cell(interval_col)) /\ IsFloat(cell(mile_col))
             THEN FSub(FAdd(cell(last_svc_col), cell(interval_col)), cell(mile_col))
             ELSE AppRaised
        ELSE AppMissing

\* Service logic of app.py: svc_due, svc_status and svc_reason are assigned
\* together, after the f-string has been built, so an int() that raises
\* leaves svc_due False
AppServiceDecision(df, row, due_miles) ==
    LET mleft == AppMleft(df, row)
    IN  CASE mleft.k = "missing" -> NoService(<<"Missing service data.">>)
          [] mleft.k = "num" ->
                ServiceStatus(mleft.n, due_miles, <<" miles.">>, <<" miles of service.">>)
          [] OTHER -> Invalid

\* parse_date_safe of app.py: as the agent's, without its try/except, so the
\* timedelta of an infinite serial raises out of think_actions
AppDate(ok, t, raised) == [ok |-> ok, t |-> t, raised |-> raised]

app_parse_date_safe(v) ==
    CASE v.k = "date" -> AppDate(TRUE, v.t, FALSE)
      [] v.k = "num" ->
            IF v.n > ExcelSerialMin
            THEN AppDate(TRUE, SerialDate(v.n), FALSE)
            ELSE AppDate(TRUE, SerialDate(UnixEpochSerial), FALSE)
      [] v.k = "inf" /\ v.s > 0 -> AppDate(FALSE, 0, TRUE)
      [] OTHER -> AppDate(FALSE, 0, FALSE)

\* MOT logic of app.py
AppMotExpiry(df, row) ==
    LET cols == df.columns
        last_mot_col == app_pick(cols, LastMotAliases)
        mot_exp_col == app_pick(cols, AppMotExpiryAliases)
    IN  IF Has(df, row, mot_exp_col)
        THEN app_parse_date_safe(RowGet(df, row, mot_exp_col))
        ELSE IF Has(df, row, last_mot_col)
        THEN LET last == app_parse_date_safe(RowGet(df, row, last_mot_col))
             IN  IF last.ok THEN AppDate(TRUE, last.t + YearTicks, FALSE) ELSE last
        ELSE AppDate(FALSE, 0, FALSE)

\* The actions app.py appends for row number i
AppRowActions(df, i, row, now, due_miles, due_days) ==
    LET cols == df.columns
        veh_col == app_pick(cols, VehAliases)
        email_col == app_pick(cols, EmailAliases)
        vehicle == IF veh_col = None THEN <<"Vehicle ", ToString(i + 1)>>
                   ELSE Str(RowGet(df, row, veh_col))
        recipient == IF Has(df, row, email_col)
                     THEN Str(RowGet(df, row, email_col))
                     ELSE AppDefaultTo
        svc == AppServiceDecision(df, row, due_miles)
        service == IF svc.due
                   THEN <<Action(vehicle, <<"Service">>, svc.status, svc.reason, recipient, <<>>)>>
                   ELSE <<>>
        expiry == AppMotExpiry(df, row)
        days_left == DaysLeft(expiry.t, now)
        mot == IF ~expiry.ok THEN <<>>
               ELSE IF days_left < 0
               THEN <<Action(vehicle, <<"MOT">>, <<"Overdue">>,
                             <<"Expired ", ToString(-days_left), " days ago on ">>
                                 \o DateOf(expiry.t) \o <<".">>,
                             recipient, DateOf(expiry.t))>>
               ELSE IF days_left <= due_days
               THEN <<Action(vehicle, <<"MOT">>, <<"Due soon">>,
                             <<"Expires in ", ToString(days_left), " days on ">>
                                 \o DateOf(expiry.t) \o <<".">>,
                             recipient, DateOf(expiry.t))>>
               ELSE <<>>
    IN  service \o mot

RECURSIVE AppThinkFrom(_, _, _, _, _)
AppThinkFrom(df, i, now, due_miles, due_days) ==
    IF i >= Len(df.rows) THEN <<>>
    ELSE AppRowActions(df, i, df.rows[i + 1], now, due_miles, due_days)
             \o AppThinkFrom(df, i + 1, now, due_miles, due_days)

\* think_actions(df, due_miles, due_days) of app.py, at the instant now: the
\* rows of the frame it returns, or the exception that leaves it
app_think_actions(df, now, due_miles, due_days) ==
    IF \E i \in DOMAIN df.rows : AppMotExpiry(df, df.rows[i]).raised
    THEN [raised |-> TRUE, actions |-> <<>>]
    ELSE [raised |-> FALSE, actions |-> AppThinkFrom(df, 0, now, due_miles, due_days)]

\* ------------------------------------------------------------------ state
VARIABLES
    sheet,            \* the roster file (args.input), as pandas parses it
    send_emails,      \* args.send
    loop_flag,        \* args.loop
    hours,            \* int(args.hours * 3600), in ticks
    suppress_days,    \* env SUPPRESS_DAYS
    due_miles,        \* env DUE_MILES_THRESHOLD
    due_days,         \* env DUE_DAYS_THRESHOLD
    now,              \* the wall clock, datetime.now()
    mem,              \* table actions_sent: action_key -> sent_at
    pc,               \* where the process is
    actions,          \* once: the candidates think_actions returned
    actions_to_send,  \* act: the candidates the dedup query let through
    idx,              \* act: position of the send loop in actions_to_send
    report,           \* the rows of the last fleet_actions_<stamp>.csv written
    status_note,      \* act: outcome of the delivery just attempted ("" when none is pending)
    printed,          \* the status lines act has printed in this pass
    err,              \* how the last pass ended: "none" or the exception's kind
    starts,           \* history: how often the program was started
    pass,             \* history: number of passes started
    attempts,         \* history: every delivery attempt: its key and action, when, in which
                      \*          pass, how often the pass's candidates hold that key and,
                      \*          when detail is set, how it ended and when it was recorded
    faults,           \* history: passes cut short between an attempt and its record,
                      \*          by a crash and by a store error
    input,            \* a function called on its own: its name and arguments
    output,           \* what that call returned
    detail            \* history: whether attempts keeps the outcome of every attempt

vars == <<sheet, send_emails, loop_flag, hours, suppress_days, due_miles, due_days,
          now, mem, pc, actions, actions_to_send, idx, report, status_note, printed,
          err, starts, pass, attempts, faults, input, output, detail>>

\* A call of one function outside a pass
call == <<input, output>>

\* No such call
NoCall == [fn |-> "none"]

config == <<sheet, send_emails, loop_flag, hours, suppress_days, due_miles, due_days>>

\* ------------------------------------------------------------- the memory
\* An empty table
NoRecords == [k \in {} |-> 0]

\* A database set up afresh at every start
ensure_db_recreate(m) == NoRecords

\* ensure_db: CREATE TABLE IF NOT EXISTS keeps the rows of an existing table
ensure_db(m) == m

\* timedelta(days=suppress_days), in ticks
Window(sd) == sd * TicksPerDay

\* A query that never lets a fingerprint through again once it is on record
PermittedOnce(m, key, t, sd) == key \notin DOMAIN m

\* A query that still suppresses when exactly one window has gone by
PermittedAfterWindow(m, key, t, sd) == ~(key \in DOMAIN m /\ t - m[key] <= Window(sd))

\* The dedup query of act for one key: TRUE when the action is to be sent
Permitted(m, key, t, sd) == ~(key \in DOMAIN m /\ t - m[key] < Window(sd))

\* act's first loop: the candidates that pass the dedup query, in order
Deduplicate(as, m, t, sd) == SelectSeq(as, LAMBDA a : Permitted(m, KeyOf(a), t, sd))

\* A dedup loop that stamps the record of every candidate it holds back
DedupTouch(m, as, t, sd) ==
    [k \in DOMAIN m |->
        IF \E i \in DOMAIN as : KeyOf(as[i]) = k /\ ~Permitted(m, k, t, sd) THEN t ELSE m[k]]

\* What act's first loop does to the table: it only reads it (SELECT, fetchone)
DedupMemory(m, as, t, sd) == m

\* A write that empties the table before it inserts
UpsertAlone(m, key, t) == [k \in {key} |-> t]

\* INSERT OR REPLACE ... sent_at = datetime.now().isoformat(), then commit
Upsert(m, key, t) == [k \in DOMAIN m \cup {key} |-> IF k = key THEN t ELSE m[k]]

\* A memory that keeps only the deliveries that succeeded
RecordIfSent(m, key, t, note) == IF note = "EMAIL SENT" THEN Upsert(m, key, t) ELSE m

\* "# Record memory": the upsert follows the attempt whatever status_note says
RecordAttempt(m, key, t, note) == Upsert(m, key, t)

\* How often a key occurs among the candidates of a pass
Occurrences(as, key) == Cardinality({i \in DOMAIN as : KeyOf(as[i]) = key})

\* The status_note of one delivery: send_mail's outcome, or the dry run
Notes(send) == IF send THEN {"EMAIL SENT", "EMAIL FAILED"} ELSE {"DRY-RUN"}

\* A send loop without the try/except around send_mail
AfterSendUncaught(note) == IF note = "EMAIL FAILED" THEN "after" ELSE "record"

\* Where the send loop goes after the attempt: except Exception keeps the
\* failure of send_mail inside the loop body
AfterSend(note) == "record"

\* A loop without the try/except around once: the exception ends the program
OnExceptionUncaught == "exit"

\* loop's try/except: where an exception raised inside once takes the process
OnException == "after"

\* ------------------------------------------------------------- the roster
Cols == <<Header("reg", "upper"), Header("miles to service", "plain"),
          Header("mot expiry", "padded"), Header("email", "plain")>>

\* One vehicle with a service overdue and no recipient of its own; one that
\* is far from its service, with an MOT expiring on day 2 and a recipient.
RowService == <<Text("V1"), Num(0), Null, Null>>
RowMot == <<Text("V2"), Num(MaxTime + 9), Date(2 * TicksPerDay), Text("b@x")>>

\* The rosters tried: one row, the same row twice, two different rows
Sheets ==
    {[columns |-> Cols, rows |-> r] :
        r \in {<<RowService>>, <<RowMot>>, <<RowService, RowService>>, <<RowService, RowMot>>}}

\* SUPPRESS_DAYS and the sleep between passes (ticks) tried
SuppressChoices == {1, 2}
SleepChoices == {1, TicksPerDay}

\* ---------------------------------------------------------------- actions
Init ==
    /\ sheet \in Sheets
    /\ send_emails \in BOOLEAN
    /\ loop_flag \in BOOLEAN
    /\ hours \in IF loop_flag THEN SleepChoices ELSE {1}
    /\ suppress_days \in SuppressChoices
    /\ due_miles = 2
    /\ due_days = 2
    /\ now = 0
    /\ mem = NoRecords
    /\ pc = "tick"
    /\ actions = <<>>
    /\ actions_to_send = <<>>
    /\ idx = 0
    /\ report = <<>>
    /\ status_note = ""
    /\ printed = <<>>
    /\ err = "none"
    /\ starts = 1
    /\ pass = 0
    /\ attempts = <<>>
    /\ faults = [crash |-> 0, store |-> 0]
    /\ detail = FALSE
    /\ input = NoCall
    /\ output = NoCall

\* once, up to the call of act: read_sheet, think_actions, ensure_db
Observe ==
    /\ pc = "tick"
    /\ pass < MaxPasses
    /\ pc' = "dedup"
    /\ actions' = think_actions(read_sheet(sheet), now, due_miles, due_days)
    /\ mem' = ensure_db(mem)
    /\ pass' = pass + 1
    /\ err' = "none"
    /\ actions_to_send' = <<>>
    /\ idx' = 0
    /\ status_note' = ""
    /\ printed' = <<>>
    /\ UNCHANGED <<config, call, detail, now, report, starts, attempts, faults>>

\* once raises before act: the roster cannot be read
ObserveFail ==
    /\ pc = "tick"
    /\ pass < MaxPasses
    /\ err' = "roster"
    /\ pc' = OnException
    /\ pass' = pass + 1
    /\ actions' = <<>>
    /\ actions_to_send' = <<>>
    /\ idx' = 0
    /\ UNCHANGED <<config, call, detail, printed, status_note, now, mem, report, starts, attempts, faults>>

\* act, from the dedup loop to the written report
Dedup ==
    /\ pc = "dedup"
    /\ actions_to_send' = Deduplicate(actions, mem, now, suppress_days)
    /\ mem' = DedupMemory(mem, actions, now, suppress_days)
    /\ report' = actions_to_send'
    /\ idx' = 1
    /\ pc' = IF actions_to_send' = <<>> THEN "after" ELSE "send"
    /\ UNCHANGED <<config, call, detail, printed, status_note, now, actions, err, starts, pass, attempts, faults>>

\* a SELECT of the dedup loop raises
DedupFail ==
    /\ pc = "dedup"
    /\ actions # <<>>
    /\ err' = "store"
    /\ pc' = OnException
    /\ UNCHANGED <<config, call, detail, printed, status_note, now, mem, actions, actions_to_send, idx, report,
                   starts, pass, attempts, faults>>

\* the send loop, one action: build_email and send_mail (or the dry run)
Send ==
    /\ pc = "send"
    /\ status_note' \in Notes(send_emails)
    /\ attempts' = Append(attempts,
                          [key |-> KeyOf(actions_to_send[idx]), a |-> actions_to_send[idx],
                           at |-> now, pass |-> pass,
                           mult |-> Occurrences(actions, KeyOf(actions_to_send[idx])),
                           note |-> IF detail THEN status_note' ELSE "", rec |-> -1])
    /\ pc' = AfterSend(status_note')
    /\ UNCHANGED <<config, call, detail, printed, now, mem, actions, actions_to_send, idx, report, err,
                   starts, pass, faults>>

\* the send loop, one action: INSERT OR REPLACE and commit
Record ==
    /\ pc = "record"
    /\ mem' = RecordAttempt(mem, KeyOf(actions_to_send[idx]), now, status_note)
    /\ idx' = idx + 1
    /\ pc' = IF idx = Len(actions_to_send) THEN "after" ELSE "send"
    /\ printed' = Append(printed, status_note)
    /\ status_note' = ""
    /\ attempts' = IF detail THEN [attempts EXCEPT ![Len(attempts)].rec = now] ELSE attempts
    /\ UNCHANGED <<config, call, detail, now, actions, actions_to_send, report, err,
                   starts, pass, faults>>

\* the INSERT or the commit raises
RecordFail ==
    /\ pc = "record"
    /\ err' = "store"
    /\ pc' = OnException
    /\ faults' = [faults EXCEPT !.store = @ + 1]
    /\ status_note' = ""
    /\ UNCHANGED <<config, call, detail, printed, now, mem, actions, actions_to_send, idx, report,
                   starts, pass, attempts>>

\* loop: if not args.loop: break
Break ==
    /\ pc = "after"
    /\ ~loop_flag
    /\ pc' = "exit"
    /\ printed' = <<>>
    /\ UNCHANGED <<config, call, detail, status_note, now, mem, actions, actions_to_send, idx, report, err,
                   starts, pass, attempts, faults>>

\* loop: time.sleep(int(hours * 3600)), then the next tick
Sleep ==
    /\ pc = "after"
    /\ loop_flag
    /\ now + hours <= MaxTime
    /\ now' = now + hours
    /\ pc' = "tick"
    /\ printed' = <<>>
    /\ UNCHANGED <<config, call, detail, status_note, mem, actions, actions_to_send, idx, report, err,
                   starts, pass, attempts, faults>>

Running == pc \in {"tick", "dedup", "send", "record", "after"}

\* the process is killed; only the database and the files survive
Crash ==
    /\ Running
    /\ starts < MaxStarts
    /\ pc' = "crashed"
    /\ faults' = IF pc = "record" THEN [faults EXCEPT !.crash = @ + 1] ELSE faults
    /\ printed' = <<>>
    /\ actions' = <<>>
    /\ actions_to_send' = <<>>
    /\ idx' = 0
    /\ status_note' = ""
    /\ UNCHANGED <<config, call, detail, now, mem, report, err, starts, pass, attempts>>

\* the program is started again on the same roster
Restart ==
    /\ pc \in {"crashed", "exit"}
    /\ starts < MaxStarts
    /\ starts' = starts + 1
    /\ pc' = "tick"
    /\ actions' = <<>>
    /\ actions_to_send' = <<>>
    /\ idx' = 0
    /\ UNCHANGED <<config, call, detail, printed, status_note, now, mem, report, err, pass, attempts, faults>>

\* time passes: while the program is down, or (one tick at most) while
\* send_mail talks to the server
Elapse ==
    /\ \/ pc \in {"crashed", "exit"}
       \/ pc = "record" /\ attempts[Len(attempts)].at = now
    /\ now < MaxTime
    /\ now' = now + 1
    /\ UNCHANGED <<config, call, detail, printed, status_note, mem, pc, actions, actions_to_send, idx, report, err,
                   starts, pass, attempts, faults>>

Next ==
    \/ Observe
    \/ ObserveFail
    \/ Dedup
    \/ DedupFail
    \/ Send
    \/ Record
    \/ RecordFail
    \/ Break
    \/ Sleep
    \/ Crash
    \/ Restart
    \/ Elapse

Spec == Init /\ [][Next]_vars

\* The repeating run on one roster: time.sleep returns once the interval is over
InitLive ==
    /\ Init
    /\ sheet.rows = <<RowService>>
    /\ send_emails
    /\ suppress_days > 0

LiveSpec == InitLive /\ [][Next]_vars /\ WF_vars(Sleep)

\* The run on one roster with one vehicle due, mail being sent, every
\* attempt's outcome kept: each step of act is taken once it is the next one
InitRetry ==
    /\ sheet = [columns |-> Cols, rows |-> <<RowService>>]
    /\ send_emails = TRUE
    /\ loop_flag \in BOOLEAN
    /\ hours \in IF loop_flag THEN SleepChoices ELSE {1}
    /\ suppress_days \in SuppressChoices
    /\ due_miles = 2
    /\ due_days = 2
    /\ now = 0
    /\ mem = NoRecords
    /\ pc = "tick"
    /\ actions = <<>>
    /\ actions_to_send = <<>>
    /\ idx = 0
    /\ report = <<>>
    /\ status_note = ""
    /\ printed = <<>>
    /\ err = "none"
    /\ starts = 1
    /\ pass = 0
    /\ attempts = <<>>
    /\ faults = [crash |-> 0, store |-> 0]
    /\ input = NoCall
    /\ output = NoCall
    /\ detail = TRUE

RetrySpec ==
    InitRetry /\ [][Next]_vars /\ WF_vars(Dedup) /\ WF_vars(Send) /\ WF_vars(Record)

\* ------------------------------------------------- classification, alone
\* think_actions applied to one-row rosters whose service cells range over
\* absent columns, empty cells, non-numeric text and mileages.
ServiceHeaders ==
    <<Header("miles to service", "plain"), Header("service due at", "upper"),
      Header("mileage", "padded"), Header("last service mileage", "plain"),
      Header("service interval", "plain")>>

Absent == [k |-> "absent"]
ServiceCells == {Absent, Null, Bad, Num(0), Num(2), Num(5)}

\* The one-row sheet whose i-th column is headers[i] and holds choice[i], or
\* is missing when choice[i] is Absent
SheetFrom(headers, choice) ==
    LET keep == {i \in DOMAIN choice : choice[i] # Absent}
        ith(j) == CHOOSE i \in keep : Cardinality({x \in keep : x < i}) = j - 1
        n == Cardinality(keep)
    IN  [columns |-> [j \in 1..n |-> headers[ith(j)]],
         rows |-> << [j \in 1..n |-> choice[ith(j)]] >>]

SheetOf(choice) == SheetFrom(ServiceHeaders, choice)

ClassifySheets == {SheetOf(c) : c \in [1..Len(ServiceHeaders) -> ServiceCells]}

InitClassify ==
    /\ sheet \in ClassifySheets
    /\ send_emails = FALSE
    /\ loop_flag = FALSE
    /\ hours = 1
    /\ suppress_days = 1
    /\ due_miles = 2
    /\ due_days = 1
    /\ now = 0
    /\ mem = NoRecords
    /\ pc = "classify"
    /\ actions = <<>>
    /\ actions_to_send = <<>>
    /\ idx = 0
    /\ report = <<>>
    /\ status_note = ""
    /\ printed = <<>>
    /\ err = "none"
    /\ starts = 1
    /\ pass = 0
    /\ attempts = <<>>
    /\ faults = [crash |-> 0, store |-> 0]
    /\ detail = FALSE
    /\ input = NoCall
    /\ output = NoCall

\* once, lines 258-260: read the sheet and classify it
Classify ==
    /\ pc = "classify"
    /\ pc' = "classified"
    /\ actions' = think_actions(read_sheet(sheet), now, due_miles, due_days)
    /\ UNCHANGED <<config, call, detail, printed, now, mem, actions_to_send, idx, report, status_note, err,
                   starts, pass, attempts, faults>>

NextClassify == Classify

ClassifySpec == InitClassify /\ [][NextClassify]_vars

\* Nothing has run yet: no pass, no record, no call
AtRest ==
    /\ send_emails = FALSE
    /\ loop_flag = FALSE
    /\ hours = 1
    /\ suppress_days = 1
    /\ mem = NoRecords
    /\ actions = <<>>
    /\ actions_to_send = <<>>
    /\ idx = 0
    /\ report = <<>>
    /\ status_note = ""
    /\ printed = <<>>
    /\ err = "none"
    /\ starts = 1
    /\ pass = 0
    /\ attempts = <<>>
    /\ faults = [crash |-> 0, store |-> 0]
    /\ detail = FALSE

\* ------------------------------------------------ column resolution, alone
\* pick applied to the columns read_sheet returns, for header rows of up to
\* MaxCols headers with different texts, each written plain, in another
\* letter case or with blanks around it.
PickNames == {"reg", "vehicle", "vrm", "mileage", "odometer", "unit"}

Styles == {"plain", "upper", "padded"}

HeaderRows ==
    UNION {{h \in [1..n -> {Header(nm, st) : nm \in PickNames, st \in Styles}] :
               \A i, j \in 1..n : i # j => h[i].name # h[j].name} : n \in 0..MaxCols}

InitPick ==
    /\ AtRest
    /\ sheet = [columns |-> <<>>, rows |-> <<>>]
    /\ now = 0
    /\ due_miles = 2
    /\ due_days = 1
    /\ pc = "call"
    /\ input \in {[fn |-> "pick", cols |-> h, cands |-> c] :
                      h \in HeaderRows, c \in {VehAliases, MileageAliases}}
    /\ output = NoCall

\* think_actions, lines 100-109: one pick on the columns of the sheet read
Pick ==
    /\ pc = "call"
    /\ input.fn = "pick"
    /\ output' = pick(read_sheet([columns |-> input.cols, rows |-> <<>>]).columns, input.cands)
    /\ pc' = "returned"
    /\ UNCHANGED <<config, input, detail, printed, now, mem, actions, actions_to_send, idx, report,
                   status_note, err, starts, pass, attempts, faults>>

NextPick == Pick

PickSpec == InitPick /\ [][NextPick]_vars

\* ------------------------------------------------------ fingerprint, alone
\* hash_action applied to two actions whose six fields are each the text "a"
\* or the text "a|a".
FieldTexts == {<<"a">>, <<"a", "|", "a">>}

SixFields == [1..6 -> FieldTexts]

InitHash ==
    /\ AtRest
    /\ sheet = [columns |-> <<>>, rows |-> <<>>]
    /\ now = 0
    /\ due_miles = 2
    /\ due_days = 1
    /\ pc = "call"
    /\ input \in {[fn |-> "hash_action", a |-> a, b |-> b] : a \in SixFields, b \in SixFields}
    /\ output = NoCall

\* act, line 222, for two actions
Hash ==
    /\ pc = "call"
    /\ input.fn = "hash_action"
    /\ output' = [a |-> hash_action(input.a[1], input.a[2], input.a[3],
                                    input.a[4], input.a[5], input.a[6]),
                  b |-> hash_action(input.b[1], input.b[2], input.b[3],
                                    input.b[4], input.b[5], input.b[6])]
    /\ pc' = "returned"
    /\ UNCHANGED <<config, input, detail, printed, now, mem, actions, actions_to_send, idx, report,
                   status_note, err, starts, pass, attempts, faults>>

NextHash == Hash

HashSpec == InitHash /\ [][NextHash]_vars

\* ------------------------------------------- classification of bad readings
\* think_actions applied to two-row rosters: the service cells of the first
\* row range over empty cells, text that is no number, infinite readings and
\* mileages, with or without an MOT that expires on day 0; the second row is
\* a vehicle whose service is due.
InvalidCols ==
    <<Header("reg", "plain"), Header("miles to service", "plain"),
      Header("service due at", "plain"), Header("mileage", "plain"),
      Header("mot expiry", "plain")>>

ReadingCells == {Null, Bad, Inf(-1), Inf(1), Num(0), Num(5)}

RowLater == <<Text("V2"), Num(0), Null, Null, Null>>

InvalidSheets ==
    {[columns |-> InvalidCols, rows |-> <<<<Text("V1"), a, b, c, m>>, RowLater>>] :
        a \in ReadingCells, b \in ReadingCells, c \in ReadingCells, m \in {Null, Date(0)}}

InitInvalid ==
    /\ AtRest
    /\ sheet \in InvalidSheets
    /\ now = 0
    /\ due_miles = 2
    /\ due_days = 1
    /\ pc = "classify"
    /\ input = NoCall
    /\ output = NoCall

InvalidSpec == InitInvalid /\ [][NextClassify]_vars

\* ------------------------------------------- the two classifiers, together
\* One roster classified by the agent and by the dashboard at the same instant
\* with the same thresholds.  The headers are lower-case and trimmed, so that
\* read_sheet changes nothing and both programs see the same frame.
AgreeHeaders ==
    <<Header("reg", "plain"), Header("mileage", "plain"), Header("current_mileage", "plain"),
      Header("service due at", "plain"), Header("service_due_at", "plain"),
      Header("mot expiry", "plain"), Header("mot date required", "plain")>>

AgreeCells == {Absent, Num(2), Num(5), Date(0), Date(4 * TicksPerDay)}

AgreeSheets ==
    {SheetFrom(AgreeHeaders, <<Text("V1")>> \o c) : c \in [1..(Len(AgreeHeaders) - 1) -> AgreeCells]}

InitAgree ==
    /\ AtRest
    /\ sheet \in AgreeSheets
    /\ now = TicksPerDay
    /\ due_miles = 2
    /\ due_days = 1
    /\ pc = "classify"
    /\ input = NoCall
    /\ output = NoCall

\* fleet_agent.py once and app.py's "Due / Overdue" table, on the same roster
Compare ==
    /\ pc = "classify"
    /\ pc' = "compared"
    /\ actions' = think_actions(read_sheet(sheet), now, due_miles, due_days)
    /\ output' = app_think_actions(sheet, now, due_miles, due_days)
    /\ UNCHANGED <<config, input, detail, printed, now, mem, actions_to_send, idx, report, status_note,
                   err, starts, pass, attempts, faults>>

NextAgree == Compare

AgreeSpec == InitAgree /\ [][NextAgree]_vars

\* ------------------------------------------------------- MOT logic, alone
\* think_actions applied to one-row rosters whose two MOT cells range over
\* absent columns, empty cells, text that is no date, numbers and dates from
\* more than a year before day 0 to after the last instant modelled.
MotHeaders == <<Header("mot expiry", "upper"), Header("last mot", "padded")>>

MotDates == (0 - YearTicks - TicksPerDay)..(MaxTime + TicksPerDay)

MotCells == {Absent, Null, Bad, Num(5), Num(Day0Serial + 1)} \cup {Date(t) : t \in MotDates}

MotSheets == {SheetFrom(MotHeaders, c) : c \in [1..Len(MotHeaders) -> MotCells]}

\* DUE_DAYS_THRESHOLD tried
DueDaysChoices == {0, 1}

InitMot ==
    /\ AtRest
    /\ sheet \in MotSheets
    /\ now \in 0..MaxTime
    /\ due_miles = 2
    /\ due_days \in DueDaysChoices
    /\ pc = "classify"
    /\ input = NoCall
    /\ output = NoCall

MotSpec == InitMot /\ [][NextClassify]_vars

\* ------------------------------------------------------------------ claims
\* The delivery attempts of the current pass, in order
ThisPass == SelectSeq(attempts, LAMBDA e : e.pass = pass)

NoFault == faults.crash = 0 /\ faults.store = 0

\* C1: with a suppression window > 0, two passes in immediate succession
\* attempt each fingerprint at most once in total.
C1_Idempotent ==
    (suppress_days > 0 /\ NoFault) =>
        \A i, j \in DOMAIN attempts :
            ~ /\ i < j
              /\ attempts[i].key = attempts[j].key
              /\ attempts[j].pass <= attempts[i].pass + 1
              /\ attempts[j].at - attempts[i].at < Window(suppress_days)

\* The suppression rule as the claim words it
Allowed(a) ==
    \/ KeyOf(a) \notin DOMAIN mem
    \/ now - mem[KeyOf(a)] >= suppress_days * TicksPerDay

\* C2: a candidate goes on to be sent if and only if the memory holds no record
\* of its fingerprint or that record is at least one suppression window old.
C2_SuppressionRule ==
    (pc \in {"send", "after"} /\ idx = 1 /\ err = "none") =>
        actions_to_send = SelectSeq(actions, Allowed)

\* C2 witness: the query has let one candidate through and held one back
C2_Witness ==
    /\ pc = "send"
    /\ idx = 1
    /\ Len(actions_to_send) < Len(actions)
    /\ \E i \in DOMAIN actions :
          KeyOf(actions[i]) \in DOMAIN mem /\ now - mem[KeyOf(actions[i])] >= 0

\* C3: once an attempt has been handled (sent, failed or dry run), the memory
\* holds a record of its fingerprint stamped with the time of that attempt.
C3_AttemptRecorded ==
    (pc \in {"send", "after"} /\ idx > 1 /\ err = "none") =>
        /\ KeyOf(actions_to_send[idx - 1]) \in DOMAIN mem
        /\ mem[KeyOf(actions_to_send[idx - 1])] = now
        /\ \A j \in 1..(idx - 1) :
              /\ ThisPass[j].key \in DOMAIN mem
              /\ mem[ThisPass[j].key] >= ThisPass[j].at

\* C3 witness: a delivery that failed has just been recorded
C3_Witness ==
    /\ pc \in {"send", "after"}
    /\ idx > 1
    /\ err = "none"
    /\ printed[idx - 1] = "EMAIL FAILED"
    /\ mem[KeyOf(actions_to_send[idx - 1])] = now

\* The attempts of attempts[i]'s key from attempts[i] on, less than a window later
InWindow(i) ==
    {j \in DOMAIN attempts :
        /\ j >= i
        /\ attempts[j].key = attempts[i].key
        /\ attempts[j].at - attempts[i].at < Window(suppress_days)}

\* C4: a crash between an attempt and its record costs at most one extra
\* delivery: within one suppression window a fingerprint is attempted at most
\* as often as in a pass without faults, plus once per pass that was cut short
\* between an attempt and its record.
C4_CrashBound ==
    \A i \in DOMAIN attempts :
        Cardinality(InWindow(i)) <= attempts[i].mult + faults.crash + faults.store

\* C4 witness: after a crash between send and record the action went out once
\* more, and this time it is on record
C4_Witness ==
    /\ faults.crash = 1
    /\ faults.store = 0
    /\ starts = 2
    /\ pc = "after"
    /\ \E i \in DOMAIN attempts :
          /\ Cardinality(InWindow(i)) = attempts[i].mult + 1
          /\ attempts[i].key \in DOMAIN mem

\* C5: when a store operation fails and stops the pass, no action of this
\* pass has been attempted without its record being committed.
C5_NoUnrecordedSend ==
    (pc = "after" /\ err = "store") =>
        \A j \in DOMAIN ThisPass :
            /\ ThisPass[j].key \in DOMAIN mem
            /\ mem[ThisPass[j].key] >= ThisPass[j].at

\* C6: a pass that no store error stops attempts and records every action the
\* dedup query let through, whatever send_mail did for the earlier ones.
C6_Isolation ==
    (pc = "after" /\ err = "none" /\ idx >= 1) =>
        /\ Len(ThisPass) = Len(actions_to_send)
        /\ Len(printed) = Len(actions_to_send)
        /\ \A j \in DOMAIN ThisPass :
              /\ ThisPass[j].a = actions_to_send[j]
              /\ ThisPass[j].key \in DOMAIN mem

\* C6 witness: the first delivery failed and the second action was still handled
C6_Witness ==
    /\ pc = "after"
    /\ err = "none"
    /\ Len(actions_to_send) = 2
    /\ Len(printed) = 2
    /\ printed[1] = "EMAIL FAILED"
    /\ Len(ThisPass) = 2

\* C7: in repeating mode no pass, failed or not, ends the loop: the exit is
\* never taken, and from the end of every pass the next tick is reached (as
\* long as the sleep stays within the time modelled, and unless the process
\* is killed).
C7_LoopSurvives ==
    /\ [](loop_flag => pc # "exit")
    /\ (pc = "after" /\ loop_flag /\ now + hours <= MaxTime) ~> (pc \in {"tick", "crashed"})

\* C7 witness: a tick that follows a failed pass
C7_Witness ==
    /\ pc = "tick"
    /\ loop_flag
    /\ err # "none"
    /\ pass >= 1
    /\ starts = 1

\* C8: with the roster unchanged, a vehicle, kind and status that has been
\* attempted is not attempted again by a later pass less than a suppression
\* window after that attempt.
C8_NoReannounce ==
    NoFault =>
        \A i, j \in DOMAIN attempts :
            ~ /\ i < j
              /\ attempts[i].pass < attempts[j].pass
              /\ attempts[i].a.Vehicle = attempts[j].a.Vehicle
              /\ attempts[i].a.Action = attempts[j].a.Action
              /\ attempts[i].a.Status = attempts[j].a.Status
              /\ attempts[j].at - attempts[i].at < Window(suppress_days)

\* C9: every candidate think_actions returned is in the report act wrote.
C9_ReportCoversAll ==
    (pc \in {"send", "record", "after"} /\ idx >= 1) =>
        \A i \in DOMAIN actions : \E j \in DOMAIN report : report[j] = actions[i]

\* The cell of the (single) row under the header whose text is name, Null when
\* the sheet has no such header.
Cell(name) ==
    LET js == {j \in 1..Len(sheet.columns) : sheet.columns[j].name = name}
    IN  IF js = {} THEN Null ELSE sheet.rows[1][Min(js)]

Present(name) == Cell(name).k # "null"

\* The Service actions among the candidates
ServiceActions == SelectSeq(actions, LAMBDA a : a.Action = <<"Service">>)

\* The rule the fallback chain must use: 1 the miles-to-service field, 2 due-at
\* minus mileage, 3 last service plus interval minus mileage, 4 none
RuleDue ==
    IF Present("miles to service") THEN 1
    ELSE IF Present("service due at") /\ Present("mileage") THEN 2
    ELSE IF Present("mileage") /\ Present("last service mileage") /\ Present("service interval")
    THEN 3
    ELSE 4

RuleFields ==
    CASE RuleDue = 1 -> {"miles to service"}
      [] RuleDue = 2 -> {"service due at", "mileage"}
      [] RuleDue = 3 -> {"mileage", "last service mileage", "service interval"}
      [] OTHER -> {}

RuleNumeric == \A f \in RuleFields : Cell(f).k = "num"

RuleMiles ==
    CASE RuleDue = 1 -> Cell("miles to service").n
      [] RuleDue = 2 -> Cell("service due at").n - Cell("mileage").n
      [] OTHER -> (Cell("last service mileage").n + Cell("service interval").n) - Cell("mileage").n

\* How the reason of a Service action shows the rule it came from
RuleOfReason(reason) ==
    IF Len(reason) = 3 THEN 1
    ELSE IF reason[3] = " miles (due at " THEN 2
    ELSE IF reason[3] = " miles (interval " THEN 3
    ELSE 0

\* C10: the Service decision of a row comes from the first applicable rule of
\* the chain miles-to-service, due-at minus mileage, last service plus interval
\* minus mileage: the action (if any) carries that rule's miles remaining and
\* that rule's wording, and without an applicable rule there is no Service action.
C10_FallbackChain ==
    pc = "classified" =>
        IF RuleDue = 4 \/ ~RuleNumeric \/ RuleMiles > due_miles
        THEN ServiceActions = <<>>
        ELSE /\ Len(ServiceActions) = 1
             /\ RuleOfReason(ServiceActions[1].Reason) = RuleDue
             /\ ServiceActions[1].Reason[2] = ToString(Abs(RuleMiles))

\* C10 witness: the third rule decided, the first two being inapplicable
C10_Witness ==
    /\ pc = "classified"
    /\ RuleDue = 3
    /\ Len(ServiceActions) = 1
    /\ RuleOfReason(ServiceActions[1].Reason) = 3

\* C11: a row whose miles remaining m is computed gets exactly one Service
\* action with status Due when m <= 0, exactly one with status Due soon when
\* 0 < m <= threshold, and none when m > threshold.
C11_ServiceThresholds ==
    (pc = "classified" /\ RuleDue # 4 /\ RuleNumeric) =>
        /\ RuleMiles <= 0 =>
              Len(ServiceActions) = 1 /\ ServiceActions[1].Status = <<"Due">>
        /\ (0 < RuleMiles /\ RuleMiles <= due_miles) =>
              Len(ServiceActions) = 1 /\ ServiceActions[1].Status = <<"Due soon">>
        /\ RuleMiles > due_miles => ServiceActions = <<>>

\* C11 witness: a reading equal to the threshold is Due soon
C11_Witness ==
    /\ pc = "classified"
    /\ RuleDue = 2
    /\ RuleNumeric
    /\ RuleMiles = due_miles
    /\ Len(ServiceActions) = 1
    /\ ServiceActions[1].Status = <<"Due soon">>
\* The MOT actions among the candidates
MotActions == SelectSeq(actions, LAMBDA a : a.Action = <<"MOT">>)

\* A cell that holds a date: it is there and parse_date_safe makes a date of it
Parseable(name) == Present(name) /\ parse_date_safe(Cell(name)).ok

\* The expiry the MOT rule names: the explicit field when it holds a date,
\* else the last MOT date plus a year when that holds a date, else none
ExpectedExpiry ==
    IF Parseable("mot expiry") THEN parse_date_safe(Cell("mot expiry"))
    ELSE IF Parseable("last mot")
    THEN [ok |-> TRUE, t |-> parse_date_safe(Cell("last mot")).t + YearDays * TicksPerDay]
    ELSE NoDate

\* C12: the MOT decision rests on the explicit expiry when that is a date,
\* otherwise on the last MOT date plus one year when that is a date, otherwise
\* there is no MOT action: an MOT action carries that expiry, and an expiry
\* that has passed gets its action.
C12_MotExpirySource ==
    pc = "classified" =>
        /\ \A i \in DOMAIN MotActions :
              ExpectedExpiry.ok /\ MotActions[i].MotExpiry = DateOf(ExpectedExpiry.t)
        /\ (ExpectedExpiry.ok /\ ExpectedExpiry.t < now) => Len(MotActions) = 1

\* The expiry think_actions worked with
UsedExpiry == MotExpiry(read_sheet(sheet), sheet.rows[1])

\* floor(x / TicksPerDay), written out for both signs
FloorDays(x) ==
    IF x >= 0
    THEN x \div TicksPerDay
    ELSE -(((0 - x) + TicksPerDay - 1) \div TicksPerDay)

\* C13: with d the floor of (expiry - now) in days: d < 0 gives exactly one MOT
\* action, Overdue, whose reason states -d; 0 <= d <= threshold gives exactly
\* one, Due soon, whose reason states d; d > threshold gives none.
C13_MotThresholds ==
    (pc = "classified" /\ UsedExpiry.ok) =>
        LET d == FloorDays(UsedExpiry.t - now)
        IN  /\ d < 0 =>
                  /\ Len(MotActions) = 1
                  /\ MotActions[1].Status = <<"Overdue">>
                  /\ MotActions[1].Reason[2] = ToString(-d)
            /\ (0 <= d /\ d <= due_days) =>
                  /\ Len(MotActions) = 1
                  /\ MotActions[1].Status = <<"Due soon">>
                  /\ MotActions[1].Reason[2] = ToString(d)
            /\ d > due_days => MotActions = <<>>

\* C13 witness: an MOT that expired less than a day ago is one day overdue
C13_Witness ==
    /\ pc = "classified"
    /\ UsedExpiry.ok
    /\ UsedExpiry.t < now
    /\ now - UsedExpiry.t < TicksPerDay
    /\ Len(MotActions) = 1
    /\ MotActions[1].Status = <<"Overdue">>
    /\ MotActions[1].Reason[2] = "1"
\* C14: an action whose row names no recipient, with no default recipient
\* configured, is still a candidate, and when mail is being sent its delivery
\* ends in a failure (and is recorded).
C14_MissingRecipientFails ==
    (send_emails /\ pc \in {"send", "after"} /\ idx >= 1) =>
        \A j \in DOMAIN printed :
            (j <= Len(actions_to_send) /\ actions_to_send[j].Recipient = DefaultTo) =>
                /\ printed[j] = "EMAIL FAILED"
                /\ KeyOf(actions_to_send[j]) \in DOMAIN mem
\* Alias number i names one of the headers, letter case and blanks aside
Named(i) == \E j \in DOMAIN input.cols : input.cols[j].name = input.cands[i].name

\* C15: the column resolved is the earliest alias of the list that names a
\* header, letter case and surrounding blanks aside, whatever later aliases
\* match and wherever the headers stand; it is absent only when no alias
\* names a header.
C15_FirstAliasWins ==
    (pc = "returned" /\ input.fn = "pick") =>
        /\ output = None <=> ~ \E i \in DOMAIN input.cands : Named(i)
        /\ \A i \in DOMAIN input.cands :
              (Named(i) /\ \A k \in 1..(i - 1) : ~Named(k)) => output = input.cands[i]

\* C15 witness: the first alias wins although its header is written in
\* capitals and stands after the header of a later alias
C15_Witness ==
    /\ pc = "returned"
    /\ input.fn = "pick"
    /\ Len(input.cols) = 2
    /\ input.cols[1].name = input.cands[3].name
    /\ input.cols[2] = Header(input.cands[1].name, "upper")
    /\ output = input.cands[1]
\* C16: two actions have the same fingerprint if and only if their six
\* fields are equal.
C16_FingerprintIdentity ==
    (pc = "returned" /\ input.fn = "hash_action") =>
        (output.a = output.b <=> input.a = input.b)
\* C17: within a pass every candidate is queried against a memory that holds
\* the records of the earlier actions of that pass, so of two candidates with
\* the same fingerprint only the first is attempted.
C17_QuerySeesEarlierRecords ==
    suppress_days > 0 =>
        \A i, j \in DOMAIN attempts :
            (i < j /\ attempts[i].pass = attempts[j].pass) =>
                attempts[i].key # attempts[j].key
\* C18: no step of any pass (sent, failed, dry run, suppressed, cut short)
\* removes a record from the memory or moves its sent_at backwards.
C18_RecordsKept ==
    [][\A k \in DOMAIN mem : k \in DOMAIN mem' /\ mem'[k] >= mem[k]]_vars

\* C18 witness: a fingerprint recorded a second time, with the later time,
\* next to the record of another fingerprint
C18_Witness ==
    /\ pc = "after"
    /\ Cardinality(DOMAIN mem) >= 2
    /\ \E i, j \in DOMAIN attempts :
          /\ i < j
          /\ attempts[i].key = attempts[j].key
          /\ attempts[i].at < attempts[j].at
          /\ mem[attempts[j].key] >= attempts[j].at

\* The candidates of the pass the dedup query held back
Suppressed == {i \in DOMAIN actions : ~ \E j \in DOMAIN actions_to_send :
                                          KeyOf(actions_to_send[j]) = KeyOf(actions[i])}

\* C20: a step changes the record of a fingerprint only when it records a
\* delivery attempt of that very fingerprint; the records of suppressed
\* candidates and of fingerprints that are no candidates stay as they are.
C20_SuppressionLeavesMemory ==
    [][\A k \in DOMAIN mem :
          \/ k \in DOMAIN mem' /\ mem'[k] = mem[k]
          \/ pc = "record" /\ k = KeyOf(actions_to_send[idx])]_vars

\* C20 witness: a pass that held one candidate back and sent another is over,
\* and the record of the one held back still carries its earlier time
C20_Witness ==
    /\ pc = "after"
    /\ err = "none"
    /\ idx > 1
    /\ \E i \in Suppressed :
          /\ KeyOf(actions[i]) \in DOMAIN mem
          /\ mem[KeyOf(actions[i])] < now
\* A reading of the first row that is there and is no finite number
Unusable(name) == Cell(name).k \in {"bad", "inf"}

\* The arithmetic of the first row's service rule fails
ArithmeticFails == \E f \in RuleFields : Unusable(f)

\* The candidates of one vehicle
ActionsOf(v) == SelectSeq(actions, LAMBDA a : a.Vehicle = <<v>>)

\* C19: a row whose service readings make the arithmetic fail gets no Service
\* action, its MOT decision is the one it would get without service readings,
\* and the rows after it are classified as usual.
C19_InvalidContained ==
    (pc = "classified" /\ ArithmeticFails) =>
        /\ \A i \in DOMAIN ActionsOf("V1") : ActionsOf("V1")[i].Action = <<"MOT">>
        /\ Len(ActionsOf("V1")) = IF Present("mot expiry") THEN 1 ELSE 0
        /\ Len(ActionsOf("V2")) = 1
        /\ ActionsOf("V2")[1].Status = <<"Due">>
\* Attempt number i ended in a delivery failure and was recorded
FailedAndRecorded(i) == attempts[i].note = "EMAIL FAILED" /\ attempts[i].rec >= 0

\* The last attempt of a fingerprint
LastAttempt(k) ==
    LET S == {i \in DOMAIN attempts : attempts[i].key = k}
    IN  CHOOSE i \in S : \A j \in S : j <= i

\* A pass is about to query a candidate whose last attempt failed, was
\* recorded, and lies at least one suppression window back
RetryDue ==
    /\ pc = "dedup"
    /\ \E c \in DOMAIN actions :
          /\ \E i \in DOMAIN attempts : attempts[i].key = KeyOf(actions[c])
          /\ FailedAndRecorded(LastAttempt(KeyOf(actions[c])))
          /\ now - attempts[LastAttempt(KeyOf(actions[c]))].rec >= Window(suppress_days)

\* The current pass has attempted a fingerprint again whose earlier attempt failed
Retried ==
    \E i, j \in DOMAIN attempts :
        /\ i < j
        /\ attempts[i].key = attempts[j].key
        /\ attempts[i].pass < attempts[j].pass
        /\ attempts[j].pass = pass
        /\ FailedAndRecorded(i)

\* C21: with the roster unchanged, an action whose attempt failed (and was
\* recorded) is attempted by no later pass before one suppression window has
\* gone by since, and the first pass that queries it after that attempts it
\* again (unless that pass is killed or stopped by a store error).
C21_RetryAfterWindow ==
    /\ [](\A i, j \in DOMAIN attempts :
            (/\ i < j
             /\ attempts[i].key = attempts[j].key
             /\ attempts[i].pass < attempts[j].pass
             /\ FailedAndRecorded(i))
                => attempts[j].at - attempts[i].rec >= Window(suppress_days))
    /\ RetryDue ~> (Retried \/ pc = "crashed" \/ err = "store")

\* C21 witness: in repeating mode a failed action was attempted again, one
\* window or more after its record, and that pass is over
C21_Witness ==
    /\ loop_flag
    /\ starts = 1
    /\ pc = "after"
    /\ err = "none"
    /\ Retried
    /\ \A i \in DOMAIN attempts : attempts[i].rec >= 0


\* The (vehicle, action kind, status) triples of a list of actions
Triples(list) == [i \in DOMAIN list |-> <<list[i].Vehicle, list[i].Action, list[i].Status>>]

\* The alias lists of the agent and of the dashboard, field by field
FieldAliases ==
    <<  <<VehAliases, VehAliases>>, <<MileageAliases, AppMileageAliases>>,
        <<LastServiceAliases, AppLastServiceAliases>>, <<IntervalAliases, AppIntervalAliases>>,
        <<DueAtAliases, AppDueAtAliases>>, <<MilesToServiceAliases, MilesToServiceAliases>>,
        <<LastMotAliases, LastMotAliases>>, <<MotExpiryAliases, AppMotExpiryAliases>>,
        <<EmailAliases, EmailAliases>>  >>

\* The column a field is resolved to, as read_sheet would name it
Resolved(h) == IF h = None THEN None ELSE StripLower(h)

\* C22: on the same roster, at the same instant and with the same thresholds,
\* the dashboard's think_actions returns the same (vehicle, action kind,
\* status) triples in the same order as the agent's, and every canonical field
\* is resolved to the same column by both.
C22_ClassifiersAgree ==
    pc = "compared" =>
        /\ ~output.raised
        /\ Triples(output.actions) = Triples(actions)
        /\ \A f \in DOMAIN FieldAliases :
               Resolved(app_pick(sheet.columns, FieldAliases[f][2]))
                   = pick(read_sheet(sheet).columns, FieldAliases[f][1])

====
